---- MODULE Spec2Model ----
(***************************************************************************)
(* A model of the session store of emillis/sessions: SessionStore (New,    *)
(* Get, GetFromCookie, Remove, Exist), the uid allocator (generateUid,     *)
(* doesUidExist) and Session (SetUid, SetKey, SetValue,                    *)
(* UpdateLastModified and the accessors).                                  *)
(*                                                                         *)
(* Sessions are heap objects: the store's caches hold pointers to them     *)
(* (cacheMachine.Cache[string, *Session]), so a pointer is modelled as a   *)
(* handle, an index into heap. The keyed cache, the random string source   *)
(* and the clock are collaborators outside the repository: a cache is a    *)
(* partial map whose Add and AddWithTimeout overwrite the entry under the   *)
(* key, Random is a nondeterministic choice among Uids, time.Now is the    *)
(* variable clock, and the expiry of an entry added with a timeout is the  *)
(* action Expire, which may happen at any time.                            *)
(*                                                                         *)
(* SpecFields has one caller making the calls one after another: New,      *)
(* Remove and the setters of the session's fields, each a single action.   *)
(* The SpecConc specifications and SpecNewLoop have NumProcs concurrent    *)
(* callers, whose calls are taken step by step, a step being one access to *)
(* what the other callers see.                                             *)
(***************************************************************************)
EXTENDS Integers, Sequences, FiniteSets

\* ------------------------------------------------------------------ bounds

\* The number of distinct strings idGen.Random can return.
NumUids == 2
\* The number of sessions New creates in one behaviour.
MaxSessions == 2
\* The clock runs from 1 to MaxClock.
MaxClock == 2
\* The number of concurrent callers in SpecConc.
NumProcs == 2
Uids == 1..NumUids
Procs == 1..NumProcs
Values == {"a", "b"}
Keys == {"", "k"}
CookieNames == {"", "_ssid", "sid"}

\* A nil pointer / a missing cache entry.
Nil == 0
\* The zero time.Time of a LastModified field that was never assigned.
ZeroTime == 0
\* No uid (an argument or a result that is not there).
NoUid == 0

VARIABLES
    heap,               \* the Session objects allocated so far, by handle
    sessions,           \* sessionStore._sessions: uid -> handle or Nil
    modifiedSessions,   \* sessionStore._modifiedSessions: uid -> handle or Nil
    tmpUidStore,        \* sessionStore._tmpUidStore: a set of uids
    Requirements,       \* sessionStore.Requirements
    clock,              \* what time.Now() returns
    pc,                 \* SpecConc: where each caller is in its call
    loc,                \* SpecConc: each caller's local variables
    last,               \* history: the call that returned last
    everReturned,       \* history: the uids New has returned
    reqGiven,           \* history: the *Requirements the store was built from
    mx,                 \* session.mx of each session: the caller holding it
    now,                \* SpecConcSet: the time.Now() each caller has read
    readers,            \* session.mx of each session: the callers reading
    w                   \* the cookie SetHttpCookie handed to http.SetCookie last

vars == <<heap, sessions, modifiedSessions, tmpUidStore, Requirements, clock,
          pc, loc, last, everReturned, reqGiven, mx, now, readers, w>>

storeVars == <<sessions, modifiedSessions, tmpUidStore, Requirements>>
procVars == <<pc, loc>>
\* What no call of the store touches.
auxVars == <<reqGiven, mx, now, readers, w>>

\* ------------------------------------------------------------ requirements

\* A func(string) bool: nil, or the predicate that holds of the uids in yes.
NilPredicate == [nil |-> TRUE, yes |-> {}]
Predicate(yes) == [nil |-> FALSE, yes |-> yes]

\* The UidExist of the fallback Requirements, which the constructor assigns
\* to a store built without one and doesUidExist then calls: the predicate
\* that is false of every uid.
defaultUidExist == Predicate({})

\* var defaultRequirements: the fallback Requirements of a store built
\* without any. Its Timeout is zero.
defaultRequirements ==
    [DefaultKey |-> "_ssid", Timeout |-> 0, UidExist |-> defaultUidExist]

\* A caller's Requirements with every field unset.
zeroRequirements ==
    [DefaultKey |-> "", Timeout |-> 0, UidExist |-> NilPredicate]

\* A *Requirements: nil, or a pointer to the value val.
NilRequirements == [nil |-> TRUE, val |-> zeroRequirements]
Ref(val) == [nil |-> FALSE, val |-> val]

\* The Requirements a caller may hand to the constructor.
RequirementsInputs ==
    {NilRequirements, Ref(zeroRequirements),
     Ref([DefaultKey |-> "sid", Timeout |-> 2, UidExist |-> Predicate({1})])}

makeRequirementsReasonable(r) ==
    [DefaultKey |-> IF r.DefaultKey = "" THEN defaultRequirements.DefaultKey
                    ELSE r.DefaultKey,
     Timeout    |-> IF r.Timeout = 0 THEN defaultRequirements.Timeout
                    ELSE r.Timeout,
     UidExist   |-> IF r.UidExist.nil THEN defaultRequirements.UidExist
                    ELSE r.UidExist]

\* New[TValue](r): what the caller's r points to once the constructor has
\* returned. makeRequirementsReasonable assigns through the pointer it is
\* given.
CallerRequirements(r) ==
    IF r.nil THEN r ELSE Ref(makeRequirementsReasonable(r.val))

\* New[TValue](r): the Requirements the constructed store holds.
NewStore(r) ==
    IF r.nil THEN defaultRequirements ELSE makeRequirementsReasonable(r.val)

\* ------------------------------------------------------- the keyed cache

EmptyCache == [u \in Uids |-> Nil]
CacheAdd(c, k, v) == [c EXCEPT ![k] = v]
CacheAddWithTimeout(c, k, v, ttl) == [c EXCEPT ![k] = v]
CacheRemove(c, k) == [c EXCEPT ![k] = Nil]
CacheExist(c, k) == c[k] # Nil
CacheGetEntry(c, k) == c[k]
CacheKeys(c) == {k \in Uids : c[k] # Nil}
CacheValues(c) == {c[k] : k \in CacheKeys(c)}

\* ------------------------------------------------------------ the store

\* doesUidExist without the call of Requirements.UidExist.
doesUidExistNoPredicate(uid) ==
    \/ CacheExist(sessions, uid)
    \/ uid \in tmpUidStore

\* doesUidExist(ss, uid)
doesUidExist(uid) ==
    \/ CacheExist(sessions, uid)
    \/ uid \in tmpUidStore
    \/ uid \in Requirements.UidExist.yes

\* The Session literal New builds: Key and LastModified are left at their
\* zero values.
NewSession(uid, data) ==
    [Uid |-> uid, Key |-> "", Value |-> data, LastModified |-> ZeroTime]

\* SessionStore.Get(uid): the handle stored under uid, or Nil.
Get(uid) ==
    LET e == CacheGetEntry(sessions, uid) IN
    IF e = Nil THEN Nil ELSE e

\* SessionStore.Exist(uid)
Exist(uid) == CacheExist(sessions, uid)

\* c.Cookie(name) answering a nil *http.Cookie and no error.
NoCookie == -1
\* A call that does not return: the goroutine panics.
Panic == -2

\* A cookie source (an implementation of Cookie): nil, or a source that
\* holds one cookie (has) or none. A source with any set answers every name
\* it is asked for with the cookie it holds and no error, as the
\* testHttpRequest of the tests does: a nil cookie and no error when it
\* holds none. The others answer with the cookie for the cookie's own name
\* and with an error for every other name (an http.Request).
NilCookie ==
    [nil |-> TRUE, any |-> FALSE, has |-> FALSE, name |-> "", value |-> NoUid]
CookieSources ==
    {NilCookie}
        \cup [nil : {FALSE}, any : BOOLEAN, has : {TRUE}, name : CookieNames,
              value : Uids]
        \cup [nil : {FALSE}, any : BOOLEAN, has : {FALSE}, name : {""},
              value : {NoUid}]

\* c.Cookie(name): the value of the cookie the source hands over, NoUid when
\* it answers with an error, NoCookie when it answers with a nil cookie and
\* no error.
CookieOf(c, name) ==
    IF c.any THEN (IF c.has THEN c.value ELSE NoCookie)
    ELSE IF c.has /\ c.name = name THEN c.value ELSE NoUid

\* SessionStore.GetFromCookie(c). cookie.Value on the nil cookie of a source
\* that answered without an error is a nil pointer dereference.
GetFromCookie(c) ==
    IF c.nil THEN Nil
    ELSE LET v == CookieOf(c, Requirements.DefaultKey) IN
         IF v = NoUid THEN Nil
         ELSE IF v = NoCookie THEN Panic
         ELSE IF ~CacheExist(sessions, v) THEN Nil
         ELSE sessions[v]

\* An *http.Cookie: nil, or a cookie with its Name, Value and Domain.
NilHttpCookie == [nil |-> TRUE, Name |-> "", Value |-> NoUid, Domain |-> ""]
\* &http.Cookie{}
EmptyHttpCookie == [nil |-> FALSE, Name |-> "", Value |-> NoUid, Domain |-> ""]
\* The templates a caller may hand to SetHttpCookie.
CookieTemplates ==
    {NilHttpCookie, EmptyHttpCookie,
     [nil |-> FALSE, Name |-> "x", Value |-> 1, Domain |-> "example.com"]}

\* ---------------------------------------------------------- the session

\* session.updateLastModified()
updateLastModified(s) == [s EXCEPT !.LastModified = clock]

\* The accessors Uid(), Key(), Value(), LastModified() of the session h.
Uid(h) == heap[h].Uid
Key(h) == heap[h].Key
Value(h) == heap[h].Value
LastModified(h) == heap[h].LastModified

SetUidBody(s, uid) == [updateLastModified(s) EXCEPT !.Uid = uid]
\* SetValue without its assignment to Value.
SetValueBodyNoWrite(s, v) == updateLastModified(s)
SetValueBody(s, v) == updateLastModified([s EXCEPT !.Value = v])
SetKeyBody(s, k) == [updateLastModified(s) EXCEPT !.Key = k]

\* The sessions a caller can hold: every one New has built.
Allocated == 1..Len(heap)

\* ------------------------------------------------------------- history

\* last is the call (or the event) that happened last, with its arguments
\* and its result: op, the session h it acted on or returned, the uid it was
\* given or returned, the value or key it was given, at, for a call of a
\* setter taken in steps, the time of the clock at which it was called,
\* run, the number of New calls that have returned since the last call of
\* another operation (time passing and an entry running out are no calls),
\* and expired, for a call of New, whether the cache had dropped the entry
\* again when the call returned.
NoCall ==
    [op |-> "none", h |-> Nil, uid |-> NoUid, val |-> "", at |-> ZeroTime,
     run |-> 0, expired |-> FALSE, cookie |-> NilHttpCookie]
Call(op, h, uid, val) ==
    [op |-> op, h |-> h, uid |-> uid, val |-> val, at |-> ZeroTime,
     run |-> 0, expired |-> FALSE, cookie |-> NilHttpCookie]

\* ------------------------------------------------- Init and the actions

Init ==
    /\ heap = <<>>
    /\ sessions = EmptyCache
    /\ modifiedSessions = EmptyCache
    /\ tmpUidStore = {}
    /\ reqGiven \in RequirementsInputs
    /\ Requirements = NewStore(reqGiven)
    /\ mx = [h \in 1..MaxSessions |-> Nil]
    /\ now = [p \in Procs |-> ZeroTime]
    /\ readers = [h \in 1..MaxSessions |-> {}]
    /\ w = NilHttpCookie
    /\ clock = 1
    /\ pc = [p \in Procs |-> "idle"]
    /\ loc = [p \in Procs |-> NoCall]
    /\ last = NoCall
    /\ everReturned = {}

\* time passes
Tick ==
    /\ clock < MaxClock
    /\ clock' = clock + 1
    /\ last' = [Call("Tick", Nil, NoUid, "") EXCEPT !.run = last.run]
    /\ UNCHANGED <<heap, storeVars, procVars, everReturned, auxVars>>

\* New without the insertion into _sessions.
NewNoSessionsAdd(data, expired) ==
    /\ Len(heap) < MaxSessions
    /\ \E uid \in Uids :
        /\ ~doesUidExist(uid)
        /\ LET h == Len(heap) + 1 IN
            /\ heap' = Append(heap, NewSession(uid, data))
            /\ modifiedSessions' = CacheAdd(modifiedSessions, uid, h)
            /\ last' = [Call("New", h, uid, data) EXCEPT !.run = last.run + 1]
        /\ everReturned' = everReturned \cup {uid}
    /\ UNCHANGED <<sessions, tmpUidStore, Requirements, clock, procVars, auxVars>>

\* SessionStore.New(data), the whole call. generateUid draws candidates until
\* doesUidExist rejects none; the draws it discards change nothing. New holds
\* no lock, so the timeout of the entry it has put into _sessions can run
\* out before it returns: the call ends with the entry in place or with the
\* entry dropped again (expired).
New(data, expired) ==
    /\ Len(heap) < MaxSessions
    /\ \E uid \in Uids :
        /\ ~doesUidExist(uid)
        /\ LET h == Len(heap) + 1
               added == CacheAddWithTimeout(sessions, uid, h,
                                            Requirements.Timeout)
           IN
            /\ heap' = Append(heap, NewSession(uid, data))
            /\ sessions' = IF expired THEN CacheRemove(added, uid) ELSE added
            /\ modifiedSessions' = CacheAdd(modifiedSessions, uid, h)
            /\ last' = [Call("New", h, uid, data)
                            EXCEPT !.run = last.run + 1, !.expired = expired]
        /\ everReturned' = everReturned \cup {uid}
    /\ UNCHANGED <<tmpUidStore, Requirements, clock, procVars, auxVars>>

\* Remove without the removal from _sessions.
RemoveModifiedOnly(uid) ==
    /\ modifiedSessions' = CacheRemove(modifiedSessions, uid)
    /\ last' = Call("Remove", Nil, uid, "")
    /\ UNCHANGED <<heap, sessions, tmpUidStore, Requirements, clock, procVars,
                   everReturned, auxVars>>

\* Remove failing on a uid that _sessions does not hold.
RemoveOnlyIfPresent(uid) ==
    /\ CacheExist(sessions, uid)
    /\ sessions' = CacheRemove(sessions, uid)
    /\ modifiedSessions' = CacheRemove(modifiedSessions, uid)
    /\ last' = Call("Remove", Nil, uid, "")
    /\ UNCHANGED <<heap, tmpUidStore, Requirements, clock, procVars,
                   everReturned, auxVars>>

\* Remove emptying _modifiedSessions instead of removing one key from it.
RemoveClearsModified(uid) ==
    /\ sessions' = CacheRemove(sessions, uid)
    /\ modifiedSessions' = EmptyCache
    /\ last' = Call("Remove", Nil, uid, "")
    /\ UNCHANGED <<heap, tmpUidStore, Requirements, clock, procVars,
                   everReturned, auxVars>>

\* SessionStore.Remove(uid), the whole call
Remove(uid) ==
    /\ sessions' = CacheRemove(sessions, uid)
    /\ modifiedSessions' = CacheRemove(modifiedSessions, uid)
    /\ last' = Call("Remove", Nil, uid, "")
    /\ UNCHANGED <<heap, tmpUidStore, Requirements, clock, procVars,
                   everReturned, auxVars>>

\* The cache drops an entry of _sessions whose timeout has run out.
Expire(uid) ==
    /\ CacheExist(sessions, uid)
    /\ sessions' = CacheRemove(sessions, uid)
    /\ last' = [Call("Expire", Nil, uid, "") EXCEPT !.run = last.run]
    /\ UNCHANGED <<heap, modifiedSessions, tmpUidStore, Requirements, clock,
                   procVars, everReturned, auxVars>>

\* SetUid moving the session's entry in _sessions to the new uid.
SetUidRekey(h, uid) ==
    /\ heap' = [heap EXCEPT ![h] = SetUidBody(heap[h], uid)]
    /\ sessions' = CacheAdd(CacheRemove(sessions, heap[h].Uid), uid, h)
    /\ last' = Call("SetUid", h, uid, "")
    /\ UNCHANGED <<modifiedSessions, tmpUidStore, Requirements, clock,
                   procVars, everReturned, auxVars>>

\* Session.SetUid(uid) on the session h
SetUid(h, uid) ==
    /\ heap' = [heap EXCEPT ![h] = SetUidBody(heap[h], uid)]
    /\ last' = Call("SetUid", h, uid, "")
    /\ UNCHANGED <<storeVars, clock, procVars, everReturned, auxVars>>

\* Session.SetValue(v) on the session h
SetValue(h, v) ==
    /\ heap' = [heap EXCEPT ![h] = SetValueBody(heap[h], v)]
    /\ last' = Call("SetValue", h, NoUid, v)
    /\ UNCHANGED <<storeVars, clock, procVars, everReturned, auxVars>>

\* Session.SetKey(k) on the session h
SetKey(h, k) ==
    /\ heap' = [heap EXCEPT ![h] = SetKeyBody(heap[h], k)]
    /\ last' = Call("SetKey", h, NoUid, k)
    /\ UNCHANGED <<storeVars, clock, procVars, everReturned, auxVars>>

NewAction == \E data \in Values, expired \in BOOLEAN : New(data, expired)
\* New in the behaviours in which no entry runs out.
NewKeptAction == \E data \in Values : New(data, FALSE)
RemoveAction == \E uid \in Uids : Remove(uid)
ExpireAction == \E uid \in Uids : Expire(uid)
SetUidAction == \E h \in Allocated, uid \in Uids : SetUid(h, uid)
SetValueAction == \E h \in Allocated, v \in Values : SetValue(h, v)
SetKeyAction == \E h \in Allocated, k \in Keys : SetKey(h, k)

\* One caller making the store's calls and the calls of the setters of the
\* session's fields one after another, every call being over before the
\* next one starts. An entry runs out between two calls or, for the entry
\* New inserts, inside the call of New.
NextFields ==
    \/ Tick
    \/ NewAction
    \/ RemoveAction
    \/ ExpireAction
    \/ SetUidAction
    \/ SetValueAction
    \/ SetKeyAction

SpecFields == Init /\ [][NextFields]_vars

\* ------------------------------------------- concurrent calls of New

\* Each caller calls New once. The steps of the call are the points at which
\* it touches state other callers see: generateUid's look into the store,
\* _sessions.AddWithTimeout, _modifiedSessions.Add. loc[p] holds the caller's
\* locals (uid, data in val) and, once New returned, its result h.

\* uid := generateUid(ss)
NewGenerate(p, data) ==
    /\ pc[p] = "idle"
    /\ \E uid \in Uids :
        /\ ~doesUidExist(uid)
        /\ loc' = [loc EXCEPT ![p] = Call("New", Nil, uid, data)]
    /\ pc' = [pc EXCEPT ![p] = "generated"]
    /\ UNCHANGED <<heap, storeVars, clock, last, everReturned, auxVars>>

\* New inserting the session into _sessions under another key than its uid.
NewAddSessionsOtherKey(p) ==
    /\ pc[p] = "generated"
    /\ LET h == Len(heap) + 1 IN
        /\ heap' = Append(heap, NewSession(loc[p].uid, loc[p].val))
        /\ sessions' = CacheAddWithTimeout(sessions,
                                           (loc[p].uid % NumUids) + 1, h,
                                           Requirements.Timeout)
        /\ loc' = [loc EXCEPT ![p].h = h]
    /\ pc' = [pc EXCEPT ![p] = "added"]
    /\ UNCHANGED <<modifiedSessions, tmpUidStore, Requirements, clock, last,
                   everReturned, auxVars>>

\* s := &Session{...}; ss._sessions.AddWithTimeout(uid, s, Timeout)
NewAddSessions(p) ==
    /\ pc[p] = "generated"
    /\ LET h == Len(heap) + 1 IN
        /\ heap' = Append(heap, NewSession(loc[p].uid, loc[p].val))
        /\ sessions' = CacheAddWithTimeout(sessions, loc[p].uid, h,
                                           Requirements.Timeout)
        /\ loc' = [loc EXCEPT ![p].h = h]
    /\ pc' = [pc EXCEPT ![p] = "added"]
    /\ UNCHANGED <<modifiedSessions, tmpUidStore, Requirements, clock, last,
                   everReturned, auxVars>>

\* ss._modifiedSessions.Add(uid, s); return s
NewAddModified(p) ==
    /\ pc[p] = "added"
    /\ modifiedSessions' = CacheAdd(modifiedSessions, loc[p].uid, loc[p].h)
    /\ pc' = [pc EXCEPT ![p] = "done"]
    /\ everReturned' = everReturned \cup {loc[p].uid}
    /\ UNCHANGED <<heap, sessions, tmpUidStore, Requirements, clock, loc,
                   last, auxVars>>

NewGenerateStep == \E p \in Procs, data \in Values : NewGenerate(p, data)
NewAddSessionsStep == \E p \in Procs : NewAddSessions(p)
NewAddModifiedStep == \E p \in Procs : NewAddModified(p)

NextConcNew ==
    \/ NewGenerateStep
    \/ NewAddSessionsStep
    \/ NewAddModifiedStep

SpecConcNew == Init /\ [][NextConcNew]_vars

\* ------------------------------- concurrent calls of New and Remove

\* Callers of New and of Remove running concurrently. Neither method takes
\* sessionStore.mx, so a call of Remove is two steps as well, one call of
\* the cache each.

\* ss._sessions.Remove(uid)
RemoveSessions(p, uid) ==
    /\ pc[p] = "idle"
    /\ sessions' = CacheRemove(sessions, uid)
    /\ loc' = [loc EXCEPT ![p] = Call("Remove", Nil, uid, "")]
    /\ pc' = [pc EXCEPT ![p] = "removing"]
    /\ UNCHANGED <<heap, modifiedSessions, tmpUidStore, Requirements, clock,
                   last, everReturned, auxVars>>

\* ss._modifiedSessions.Remove(uid)
RemoveModified(p) ==
    /\ pc[p] = "removing"
    /\ modifiedSessions' = CacheRemove(modifiedSessions, loc[p].uid)
    /\ pc' = [pc EXCEPT ![p] = "done"]
    /\ UNCHANGED <<heap, sessions, tmpUidStore, Requirements, clock, loc,
                   last, everReturned, auxVars>>

RemoveSessionsStep == \E p \in Procs, uid \in Uids : RemoveSessions(p, uid)
RemoveModifiedStep == \E p \in Procs : RemoveModified(p)

NextConcStore ==
    \/ NewGenerateStep
    \/ NewAddSessionsStep
    \/ NewAddModifiedStep
    \/ RemoveSessionsStep
    \/ RemoveModifiedStep

SpecConcStore == Init /\ [][NextConcStore]_vars

\* ------------------------------------------- the loop of generateUid

\* Callers of New with the loop of generateUid taken draw by draw: the call,
\* the draw of a candidate from the random source, the check of the
\* candidate (continue, or return it), and then the two insertions of New.

\* ss.New(data) is called; generateUid enters its loop.
GenerateCall(p, data) ==
    /\ pc[p] = "idle"
    /\ loc' = [loc EXCEPT ![p] = Call("New", Nil, NoUid, data)]
    /\ pc' = [pc EXCEPT ![p] = "drawing"]
    /\ UNCHANGED <<heap, storeVars, clock, last, everReturned, auxVars>>

\* newUid := idGen.Random(...)
GenerateDraw(p, uid) ==
    /\ pc[p] = "drawing"
    /\ loc' = [loc EXCEPT ![p].uid = uid]
    /\ pc' = [pc EXCEPT ![p] = "drawn"]
    /\ UNCHANGED <<heap, storeVars, clock, last, everReturned, auxVars>>

\* The check returning the candidate whatever doesUidExist says.
GenerateCheckNoRetry(p) ==
    /\ pc[p] = "drawn"
    /\ pc' = [pc EXCEPT ![p] = "generated"]
    /\ UNCHANGED <<heap, storeVars, clock, loc, last, everReturned, auxVars>>

\* if doesUidExist(ss, newUid) { continue }; return newUid
GenerateCheck(p) ==
    /\ pc[p] = "drawn"
    /\ IF doesUidExist(loc[p].uid)
       THEN /\ pc' = [pc EXCEPT ![p] = "drawing"]
            /\ loc' = [loc EXCEPT ![p].uid = NoUid]
       ELSE /\ pc' = [pc EXCEPT ![p] = "generated"]
            /\ loc' = loc
    /\ UNCHANGED <<heap, storeVars, clock, last, everReturned, auxVars>>

GenerateCallStep == \E p \in Procs, data \in Values : GenerateCall(p, data)
GenerateDrawStep == \E p \in Procs, uid \in Uids : GenerateDraw(p, uid)
GenerateCheckStep == \E p \in Procs : GenerateCheck(p)

NextNewLoop ==
    \/ GenerateCallStep
    \/ GenerateDrawStep
    \/ GenerateCheckStep
    \/ NewAddSessionsStep
    \/ NewAddModifiedStep

\* The scheduler lets every caller that can take a step take one, and the
\* random source yields every uid again and again to a caller that keeps
\* drawing.
FairNewLoop ==
    \A p \in Procs :
        /\ \A uid \in Uids : SF_vars(GenerateDraw(p, uid))
        /\ WF_vars(GenerateCheck(p))
        /\ WF_vars(NewAddSessions(p))
        /\ WF_vars(NewAddModified(p))

SpecNewLoop == Init /\ [][NextNewLoop]_vars /\ FairNewLoop

\* -------------------------------------- concurrent calls of the setters

\* Callers holding the first session and calling its setters concurrently,
\* and callers of Remove.
\* A call is taken in steps: the call (the caller then waits for the lock),
\* s.mx.Lock(), the evaluation of time.Now(), the assignments made under the
\* lock, s.mx.Unlock(), and for UpdateLastModified the call of s.Uid() under
\* the read lock and then, with no lock held, the insertion into
\* _modifiedSessions. pc[p] is the caller's position, loc[p] the call and its
\* arguments, now[p] the time it has read, kept until the call returns.

\* The calls a caller can make on the session h.
SetterCalls(h) ==
    {Call("SetUid", h, uid, "") : uid \in Uids}
        \cup {Call("SetValue", h, NoUid, v) : v \in Values}
        \cup {Call("SetKey", h, NoUid, k) : k \in Keys}
        \cup {Call("UpdateLastModified", h, NoUid, "")}

\* The session after the assignments the call c makes under the lock; the
\* step that applies it puts the time the caller has read into LastModified.
SetterBody(s, c) ==
    CASE c.op = "SetUid" -> SetUidBody(s, c.uid)
      [] c.op = "SetValue" -> SetValueBody(s, c.val)
      [] c.op = "SetKey" -> SetKeyBody(s, c.val)
      [] OTHER -> s

\* The caller p calls a setter of the session h, at the time clock.
SetterCall(p, h) ==
    /\ pc[p] = "idle"
    /\ \E c \in SetterCalls(h) :
        loc' = [loc EXCEPT ![p] = [c EXCEPT !.at = clock]]
    /\ pc' = [pc EXCEPT ![p] = "calling"]
    /\ UNCHANGED <<heap, storeVars, clock, last, everReturned, auxVars>>

\* s.mx.Lock() taken although another caller holds the lock.
SetterLockNoWait(p) ==
    /\ pc[p] = "calling"
    /\ mx' = [mx EXCEPT ![loc[p].h] = p]
    /\ pc' = [pc EXCEPT ![p] = "waiting"]
    /\ UNCHANGED <<heap, storeVars, clock, loc, last, everReturned, reqGiven,
                   now, readers, w>>

\* s.mx.Lock(): the caller becomes the writer of the lock, which keeps
\* other writers and new readers out.
SetterLock(p) ==
    /\ pc[p] = "calling"
    /\ mx[loc[p].h] = Nil
    /\ mx' = [mx EXCEPT ![loc[p].h] = p]
    /\ pc' = [pc EXCEPT ![p] = "waiting"]
    /\ UNCHANGED <<heap, storeVars, clock, loc, last, everReturned, reqGiven,
                   now, readers, w>>

\* s.mx.Lock() returns once the callers that were reading have left.
SetterLockWait(p) ==
    /\ pc[p] = "waiting"
    /\ readers[loc[p].h] = {}
    /\ pc' = [pc EXCEPT ![p] = "locked"]
    /\ UNCHANGED <<heap, storeVars, clock, loc, last, everReturned, auxVars>>

\* time.Now(), evaluated in updateLastModified
SetterNow(p) ==
    /\ pc[p] = "locked"
    /\ now' = [now EXCEPT ![p] = clock]
    /\ pc' = [pc EXCEPT ![p] = "timed"]
    /\ UNCHANGED <<heap, storeVars, clock, loc, last, everReturned, reqGiven,
                   mx, readers, w>>

\* A setter making its own assignment and leaving LastModified as it was.
SetterStoreNoTime(p) ==
    /\ pc[p] = "timed"
    /\ heap' = [heap EXCEPT ![loc[p].h] =
                    [SetterBody(@, loc[p]) EXCEPT !.LastModified =
                        heap[loc[p].h].LastModified]]
    /\ pc' = [pc EXCEPT ![p] = "stored"]
    /\ UNCHANGED <<storeVars, clock, loc, last, everReturned, auxVars>>

\* s.LastModified = (the time read) and the setter's own assignment
SetterStore(p) ==
    /\ pc[p] = "timed"
    /\ heap' = [heap EXCEPT ![loc[p].h] =
                    [SetterBody(@, loc[p]) EXCEPT !.LastModified = now[p]]]
    /\ pc' = [pc EXCEPT ![p] = "stored"]
    /\ UNCHANGED <<storeVars, clock, loc, last, everReturned, auxVars>>

\* UpdateLastModified keeping the lock until it returns (a deferred Unlock).
SetterUnlockDeferred(p) ==
    /\ pc[p] = "stored"
    /\ IF loc[p].op = "UpdateLastModified"
       THEN /\ pc' = [pc EXCEPT ![p] = "unlocked"]
            /\ UNCHANGED <<loc, mx, now>>
       ELSE /\ pc' = [pc EXCEPT ![p] = "idle"]
            /\ loc' = [loc EXCEPT ![p] = NoCall]
            /\ mx' = [mx EXCEPT ![loc[p].h] = Nil]
            /\ now' = [now EXCEPT ![p] = ZeroTime]
    /\ UNCHANGED <<heap, storeVars, clock, last, everReturned, reqGiven,
                   readers, w>>

\* s.mx.Unlock(); every setter but UpdateLastModified then returns
SetterUnlock(p) ==
    /\ pc[p] = "stored"
    /\ mx' = [mx EXCEPT ![loc[p].h] = Nil]
    /\ IF loc[p].op = "UpdateLastModified"
       THEN /\ pc' = [pc EXCEPT ![p] = "unlocked"]
            /\ UNCHANGED <<loc, now>>
       ELSE /\ pc' = [pc EXCEPT ![p] = "idle"]
            /\ loc' = [loc EXCEPT ![p] = NoCall]
            /\ now' = [now EXCEPT ![p] = ZeroTime]
    /\ UNCHANGED <<heap, storeVars, clock, last, everReturned, reqGiven,
                   readers, w>>

\* s.Uid(), the argument of the insertion: s.mx.RLock(), which waits while
\* a writer holds or awaits the lock
SetterUidRLock(p) ==
    /\ pc[p] = "unlocked"
    /\ mx[loc[p].h] = Nil
    /\ readers' = [readers EXCEPT ![loc[p].h] = @ \cup {p}]
    /\ pc' = [pc EXCEPT ![p] = "uidlocked"]
    /\ UNCHANGED <<heap, storeVars, clock, loc, last, everReturned, reqGiven,
                   mx, now, w>>

\* s.Uid(): return s.session.Uid, with the deferred s.mx.RUnlock()
SetterUidRead(p) ==
    /\ pc[p] = "uidlocked"
    /\ loc' = [loc EXCEPT ![p].uid = Uid(loc[p].h)]
    /\ readers' = [readers EXCEPT ![loc[p].h] = @ \ {p}]
    /\ pc' = [pc EXCEPT ![p] = "uidread"]
    /\ UNCHANGED <<heap, storeVars, clock, last, everReturned, reqGiven,
                   mx, now, w>>

\* s.store._modifiedSessions.Add(uid, s) with the uid read, no lock held,
\* and UpdateLastModified returns
SetterNotify(p) ==
    /\ pc[p] = "uidread"
    /\ modifiedSessions' = CacheAdd(modifiedSessions, loc[p].uid, loc[p].h)
    /\ pc' = [pc EXCEPT ![p] = "idle"]
    /\ loc' = [loc EXCEPT ![p] = NoCall]
    /\ now' = [now EXCEPT ![p] = ZeroTime]
    /\ UNCHANGED <<heap, sessions, tmpUidStore, Requirements, clock, last,
                   everReturned, reqGiven, mx, readers, w>>

\* New, called once before the callers start.
NewFirst == Len(heap) = 0 /\ NewKeptAction
\* A caller calls Remove on the store New has returned a session of.
RemoveAfterNewStep == Len(heap) > 0 /\ RemoveSessionsStep
SetterCallStep == \E p \in Procs, h \in Allocated : SetterCall(p, h)
SetterLockStep == \E p \in Procs : SetterLock(p)
SetterLockWaitStep == \E p \in Procs : SetterLockWait(p)
SetterNowStep == \E p \in Procs : SetterNow(p)
SetterStoreStep == \E p \in Procs : SetterStore(p)
SetterUnlockStep == \E p \in Procs : SetterUnlock(p)
SetterUidRLockStep == \E p \in Procs : SetterUidRLock(p)
SetterUidReadStep == \E p \in Procs : SetterUidRead(p)
SetterNotifyStep == \E p \in Procs : SetterNotify(p)

NextConcSet ==
    \/ Tick
    \/ NewFirst
    \/ SetterCallStep
    \/ SetterLockStep
    \/ SetterLockWaitStep
    \/ SetterNowStep
    \/ SetterStoreStep
    \/ SetterUnlockStep
    \/ SetterUidRLockStep
    \/ SetterUidReadStep
    \/ SetterNotifyStep
    \/ RemoveAfterNewStep
    \/ RemoveModifiedStep

SpecConcSet == Init /\ [][NextConcSet]_vars

\* ------------------------------ concurrent accessors and setters

\* Callers of the accessors and the setters of the sessions of the store,
\* which start once New has built the sessions: no call of New runs beside
\* them. An accessor is taken in steps: the call, s.mx.RLock(), and the read
\* of the field with the deferred s.mx.RUnlock().

\* The accessors a caller can call on the session h.
AccessorCalls(h) ==
    {Call(op, h, NoUid, "") : op \in {"Uid", "Key", "Value", "LastModified"}}

\* The caller p calls an accessor of the session h.
AccessorCall(p, h) ==
    /\ pc[p] = "idle"
    /\ \E c \in AccessorCalls(h) : loc' = [loc EXCEPT ![p] = c]
    /\ pc' = [pc EXCEPT ![p] = "rcalling"]
    /\ UNCHANGED <<heap, storeVars, clock, last, everReturned, auxVars>>

\* s.mx.RLock(): waits while a writer holds or awaits the lock
AccessorRLock(p) ==
    /\ pc[p] = "rcalling"
    /\ mx[loc[p].h] = Nil
    /\ readers' = [readers EXCEPT ![loc[p].h] = @ \cup {p}]
    /\ pc' = [pc EXCEPT ![p] = "reading"]
    /\ UNCHANGED <<heap, storeVars, clock, loc, last, everReturned, reqGiven,
                   mx, now, w>>

\* return s.session.<field>, with the deferred s.mx.RUnlock()
AccessorRUnlock(p) ==
    /\ pc[p] = "reading"
    /\ readers' = [readers EXCEPT ![loc[p].h] = @ \ {p}]
    /\ pc' = [pc EXCEPT ![p] = "idle"]
    /\ loc' = [loc EXCEPT ![p] = NoCall]
    /\ UNCHANGED <<heap, storeVars, clock, last, everReturned, reqGiven,
                   mx, now, w>>

\* The caller p calls a setter of the session h with the value the field
\* has: what a setter writes has no part in how it locks.
SetterCallSame(p, h) ==
    /\ pc[p] = "idle"
    /\ \E c \in SetterCalls(h) :
        /\ c.op = "SetUid" => c.uid = Uid(h)
        /\ c.op = "SetValue" => c.val = Value(h)
        /\ c.op = "SetKey" => c.val = Key(h)
        /\ loc' = [loc EXCEPT ![p] = [c EXCEPT !.at = clock]]
    /\ pc' = [pc EXCEPT ![p] = "calling"]
    /\ UNCHANGED <<heap, storeVars, clock, last, everReturned, auxVars>>

\* New has returned every session of the behaviour.
Built == Len(heap) = MaxSessions

SetterCallSameStep ==
    Built /\ \E p \in Procs, h \in Allocated : SetterCallSame(p, h)
AccessorCallStep ==
    Built /\ \E p \in Procs, h \in Allocated : AccessorCall(p, h)
AccessorRLockStep == \E p \in Procs : AccessorRLock(p)
AccessorRUnlockStep == \E p \in Procs : AccessorRUnlock(p)

NextConcLock ==
    \/ NewKeptAction
    \/ SetterCallSameStep
    \/ SetterLockStep
    \/ SetterLockWaitStep
    \/ SetterNowStep
    \/ SetterStoreStep
    \/ SetterUnlockStep
    \/ SetterUidRLockStep
    \/ SetterUidReadStep
    \/ SetterNotifyStep
    \/ AccessorCallStep
    \/ AccessorRLockStep
    \/ AccessorRUnlockStep

\* The steps of the caller p inside a call.
CallerStep(p) ==
    \/ SetterLock(p) \/ SetterLockWait(p) \/ SetterNow(p) \/ SetterStore(p)
    \/ SetterUnlock(p) \/ SetterUidRLock(p) \/ SetterUidRead(p)
    \/ SetterNotify(p) \/ AccessorRLock(p) \/ AccessorRUnlock(p)

\* Fair scheduling: a caller inside a call whose next step is possible again
\* and again takes it. (A caller whose next step is Lock or RLock can take
\* it whenever the lock is free; were it only promised a step once the lock
\* stays free, callers taking the lock in turn could pass it over for ever.)
FairConcLock == \A p \in Procs : SF_vars(CallerStep(p))

SpecConcLock == Init /\ [][NextConcLock]_vars /\ FairConcLock

\* ------------------------------ SetHttpCookie beside concurrent setters

\* Callers of SetHttpCookie and of the setters of one session. The call is
\* taken in the steps of its code: the replacement of a nil template, s.Key()
\* under the read lock, s.Uid() under the read lock taken anew, and
\* http.SetCookie. loc[p].cookie is the *http.Cookie the caller works on; no
\* lock is held between the two reads.

\* if cookie == nil { cookie = &http.Cookie{} }, dropping the template
SetHttpCookieCallFresh(p, h, cookie) ==
    /\ pc[p] = "idle"
    /\ loc' = [loc EXCEPT ![p] =
                [Call("SetHttpCookie", h, NoUid, "")
                    EXCEPT !.cookie = EmptyHttpCookie]]
    /\ pc' = [pc EXCEPT ![p] = "binding"]
    /\ UNCHANGED <<heap, storeVars, clock, last, everReturned, auxVars>>

\* s.SetHttpCookie(w, cookie) is called on the session h:
\* if cookie == nil { cookie = &http.Cookie{} }
SetHttpCookieCall(p, h, cookie) ==
    /\ pc[p] = "idle"
    /\ loc' = [loc EXCEPT ![p] =
                [Call("SetHttpCookie", h, NoUid, "")
                    EXCEPT !.cookie = IF cookie.nil THEN EmptyHttpCookie
                                      ELSE cookie]]
    /\ pc' = [pc EXCEPT ![p] = "binding"]
    /\ UNCHANGED <<heap, storeVars, clock, last, everReturned, auxVars>>

\* s.Key(): s.mx.RLock(), which waits while a writer holds or awaits the lock
SetHttpCookieKeyRLock(p) ==
    /\ pc[p] = "binding"
    /\ mx[loc[p].h] = Nil
    /\ readers' = [readers EXCEPT ![loc[p].h] = @ \cup {p}]
    /\ pc' = [pc EXCEPT ![p] = "keylocked"]
    /\ UNCHANGED <<heap, storeVars, clock, loc, last, everReturned, reqGiven,
                   mx, now, w>>

\* cookie.Name = s.Key(), with the deferred s.mx.RUnlock()
SetHttpCookieKey(p) ==
    /\ pc[p] = "keylocked"
    /\ loc' = [loc EXCEPT ![p].cookie.Name = Key(loc[p].h)]
    /\ readers' = [readers EXCEPT ![loc[p].h] = @ \ {p}]
    /\ pc' = [pc EXCEPT ![p] = "named"]
    /\ UNCHANGED <<heap, storeVars, clock, last, everReturned, reqGiven,
                   mx, now, w>>

\* s.Uid(): s.mx.RLock()
SetHttpCookieUidRLock(p) ==
    /\ pc[p] = "named"
    /\ mx[loc[p].h] = Nil
    /\ readers' = [readers EXCEPT ![loc[p].h] = @ \cup {p}]
    /\ pc' = [pc EXCEPT ![p] = "vallocked"]
    /\ UNCHANGED <<heap, storeVars, clock, loc, last, everReturned, reqGiven,
                   mx, now, w>>

\* cookie.Value = s.Uid(), with the deferred s.mx.RUnlock()
SetHttpCookieUid(p) ==
    /\ pc[p] = "vallocked"
    /\ loc' = [loc EXCEPT ![p].cookie.Value = Uid(loc[p].h)]
    /\ readers' = [readers EXCEPT ![loc[p].h] = @ \ {p}]
    /\ pc' = [pc EXCEPT ![p] = "valued"]
    /\ UNCHANGED <<heap, storeVars, clock, last, everReturned, reqGiven,
                   mx, now, w>>

\* http.SetCookie(w, cookie), and the call returns
SetHttpCookieSend(p) ==
    /\ pc[p] = "valued"
    /\ w' = loc[p].cookie
    /\ last' = Call("SetHttpCookie", loc[p].h, NoUid, "")
    /\ pc' = [pc EXCEPT ![p] = "idle"]
    /\ loc' = [loc EXCEPT ![p] = NoCall]
    /\ UNCHANGED <<heap, storeVars, clock, everReturned, reqGiven, mx, now,
                   readers>>

\* The positions of a caller inside SetHttpCookie.
Binding == {"binding", "keylocked", "named", "vallocked", "valued"}

SetHttpCookieCallStep ==
    \E p \in Procs, h \in Allocated, cookie \in CookieTemplates :
        SetHttpCookieCall(p, h, cookie)
SetHttpCookieKeyRLockStep == \E p \in Procs : SetHttpCookieKeyRLock(p)
SetHttpCookieKeyStep == \E p \in Procs : SetHttpCookieKey(p)
SetHttpCookieUidRLockStep == \E p \in Procs : SetHttpCookieUidRLock(p)
SetHttpCookieUidStep == \E p \in Procs : SetHttpCookieUid(p)
SetHttpCookieSendStep == \E p \in Procs : SetHttpCookieSend(p)

NextConcCookie ==
    \/ NewFirst
    \/ SetterCallStep
    \/ SetterLockStep
    \/ SetterLockWaitStep
    \/ SetterNowStep
    \/ SetterStoreStep
    \/ SetterUnlockStep
    \/ SetterUidRLockStep
    \/ SetterUidReadStep
    \/ SetterNotifyStep
    \/ SetHttpCookieCallStep
    \/ SetHttpCookieKeyRLockStep
    \/ SetHttpCookieKeyStep
    \/ SetHttpCookieUidRLockStep
    \/ SetHttpCookieUidStep
    \/ SetHttpCookieSendStep

SpecConcCookie == Init /\ [][NextConcCookie]_vars

\* --------------------------------------------------------------- claims

\* The sessions reachable from the store.
Reachable == CacheValues(sessions) \cup CacheValues(modifiedSessions)
\* The request whose cookie for the store's DefaultKey has the value uid.
CookieFor(uid) ==
    [nil |-> FALSE, any |-> FALSE, has |-> TRUE,
     name |-> Requirements.DefaultKey, value |-> uid]
\* The value of the cookie the source c yields for the store's DefaultKey,
\* NoUid when it yields none.
CookieValue(c) ==
    IF c.nil THEN NoUid
    ELSE LET v == CookieOf(c, Requirements.DefaultKey) IN
         IF v = NoCookie THEN NoUid ELSE v

\* C1: no two distinct sessions reachable from the store (held in Sessions
\* or ModifiedSessions) have the same Uid(). The code breaks it: SetUid
\* takes any uid.
C1_UidUnique ==
    \A h1 \in Reachable, h2 \in Reachable :
        h1 # h2 => Uid(h1) # Uid(h2)

\* C2: the sessions returned by New calls made one after another (the
\* last.run latest ones, no other call having been made between them) have
\* pairwise distinct uids. The code breaks it: generateUid looks at the
\* sessions _sessions holds now, so the uid of a session whose entry has run
\* out between two calls is handed out again.
C2_SequentialNewDistinct ==
    \A h1 \in Allocated, h2 \in Allocated :
        (/\ h1 # h2
         /\ h1 > Len(heap) - last.run
         /\ h2 > Len(heap) - last.run) => Uid(h1) # Uid(h2)

\* C3: when every caller calls New concurrently, the returned sessions have
\* pairwise distinct uids and, once all calls have returned, each is in
\* ModifiedSessions under its own uid. The code breaks it: two callers can
\* both pass doesUidExist for the same candidate before either inserts it.
C3_ConcurrentNew ==
    /\ \A p \in Procs, q \in Procs :
        (p # q /\ pc[p] = "done" /\ pc[q] = "done")
            => Uid(loc[p].h) # Uid(loc[q].h)
    /\ (\A p \in Procs : pc[p] = "done")
        => \A p \in Procs : modifiedSessions[Uid(loc[p].h)] = loc[p].h

\* C4, as stated: right after New returns s, Exist(s.Uid()) is true; right
\* after Remove(uid) returns, Exist(uid) is false and Get(uid) is nil.
C4_ExistAfterNewAndRemove ==
    /\ last.op = "New" => Exist(Uid(last.h))
    /\ last.op = "Remove" => (~Exist(last.uid) /\ Get(last.uid) = Nil)

\* C4, amended: right after New returns s, Exist(s.Uid()) is true unless
\* the timeout of the entry has run out before the call returned, and then
\* it is false; right after Remove(uid) returns, Exist(uid) is false and
\* Get(uid) is nil.
C4_ExistAfterNewUnlessExpired ==
    /\ last.op = "New" => (Exist(Uid(last.h)) <=> ~last.expired)
    /\ last.op = "Remove" => (~Exist(last.uid) /\ Get(last.uid) = Nil)

\* C4: New has just returned a session whose entry has not run out, after
\* Remove had returned for the uid of a session New had returned earlier
\* (that uid is in neither collection).
C4_Witness ==
    /\ last.op = "New"
    /\ ~last.expired
    /\ Exist(Uid(last.h))
    /\ \E h \in Allocated :
        /\ h # last.h
        /\ Uid(h) # last.uid
        /\ ~Exist(Uid(h))
        /\ modifiedSessions[Uid(h)] = Nil

\* C5, as stated: in every state Get(uid) is nil for every uid that no New
\* call has returned.
C5_GetAbsentIfNeverReturned ==
    \A uid \in Uids \ everReturned : Get(uid) = Nil

\* C5, amended: in every state Get(uid) is nil for every uid that no New
\* call has returned and that no New call under way has inserted into
\* _sessions already.
C5_GetAbsentUnlessInserted ==
    \A uid \in Uids :
        Get(uid) # Nil =>
            \/ uid \in everReturned
            \/ \E p \in Procs : pc[p] = "added" /\ loc[p].uid = uid

\* C5: a call of New has inserted its session into _sessions and has not
\* returned; Get returns the session for a uid no New call has returned.
C5_Witness ==
    \E p \in Procs :
        /\ pc[p] = "added"
        /\ loc[p].uid \notin everReturned
        /\ Get(loc[p].uid) = loc[p].h

\* C6: GetFromCookie(c) returns the live session whose uid is the value of
\* the cookie c yields for DefaultKey, and nil when c is nil, yields no
\* cookie for DefaultKey, or the value is not the uid of a live session; its
\* result equals Get(value). The code breaks it: for a source that answers
\* with no cookie and no error the call panics, and after SetUid the session
\* it returns is not the one whose uid is the cookie's value.
C6_GetFromCookie ==
    \A c \in CookieSources :
        LET v == CookieValue(c)
            r == GetFromCookie(c)
            live == {h \in CacheValues(sessions) : Uid(h) = v}
        IN  /\ v = NoUid => r = Nil
            /\ v # NoUid => r = Get(v)
            /\ (v # NoUid /\ live = {}) => r = Nil
            /\ (v # NoUid /\ live # {}) => r \in live

\* C7: for a live uid (one whose entry has not run out) Get(uid) and
\* GetFromCookie hand out the very session New returned, so what SetValue,
\* SetKey or SetUid wrote through one handle is what the accessors of every
\* handle Get returns for that session read.
C7_SharedByReference ==
    /\ (last.op = "New" /\ ~last.expired) =>
        (Get(last.uid) = last.h /\ GetFromCookie(CookieFor(last.uid)) = last.h)
    /\ \A uid \in Uids :
        LET g == Get(uid) IN
        /\ g # Nil => g \in Allocated
        /\ (g # Nil /\ g = last.h /\ last.op = "SetValue")
            => Value(g) = last.val
        /\ (g # Nil /\ g = last.h /\ last.op = "SetKey") => Key(g) = last.val
        /\ (g # Nil /\ g = last.h /\ last.op = "SetUid") => Uid(g) = last.uid
        /\ g # Nil => GetFromCookie(CookieFor(uid)) = g

\* C7: SetValue has just written, through the handle New returned, a value
\* other than the one New was given, and Get returns that session.
C7_Witness ==
    /\ last.op = "SetValue"
    /\ last.val = "b"
    /\ \E uid \in Uids : Get(uid) = last.h /\ Value(Get(uid)) = "b"

\* C8: once New has returned s (Remove never being called and no entry
\* running out) the store holds s under s.Uid() in Sessions and in
\* ModifiedSessions as long as no other call has touched them, and s is
\* never in Sessions without being in ModifiedSessions. The code breaks it:
\* the insertion of a second session under the same uid replaces s in one
\* collection and not in the other.
C8_InsertedInBoth ==
    \A p \in Procs :
        pc[p] = "done" =>
            LET s == loc[p].h IN
            /\ (\A q \in Procs \ {p} : pc[q] \in {"idle", "generated"}) =>
                    /\ sessions[Uid(s)] = s
                    /\ modifiedSessions[Uid(s)] = s
            /\ s \in CacheValues(sessions) =>
                    s \in CacheValues(modifiedSessions)

\* C9: the session New returns has LastModified equal to the time New ran.
\* The code breaks it: New leaves LastModified at the zero time.
C9_NewSetsLastModified ==
    last.op = "New" => LastModified(last.h) = clock

\* A step with which the call of the caller p returns.
Returns(p) == pc[p] # "idle" /\ pc'[p] = "idle"

C12_ValueRoundTrip ==
    [][/\ (last'.op = "New" /\ Len(heap') = Len(heap) + 1) =>
            heap'[last'.h].Value = last'.val
       /\ \A p \in Procs :
            (SetterStore(p) /\ loc[p].op = "SetValue") =>
                heap'[loc[p].h].Value = loc[p].val
       /\ \A h \in Allocated :
            heap'[h].Value # heap[h].Value =>
                \E p \in Procs :
                    /\ SetterStore(p)
                    /\ loc[p].op = "SetValue"
                    /\ loc[p].h = h]_vars

\* SetValue("b") was called on the session New built with "a", and a caller
\* of another setter has since made its assignments: the value is still "b".
C12_Witness ==
    /\ last.op = "New"
    /\ last.val = "a"
    /\ \E p \in Procs :
        /\ pc[p] = "stored"
        /\ loc[p].op \in {"SetKey", "SetUid", "UpdateLastModified"}
        /\ Value(loc[p].h) = "b"

C14_RemoveFrame ==
    [][\A a \in Uids :
        Remove(a) =>
            /\ \A b \in Uids \ {a} :
                    /\ sessions'[b] = sessions[b]
                    /\ modifiedSessions'[b] = modifiedSessions[b]
            /\ heap' = heap]_vars

\* Remove(a) has returned, a had been returned by New, and another uid is
\* still a key of both collections.
C14_Witness ==
    /\ last.op = "Remove"
    /\ last.uid \in everReturned
    /\ \E b \in Uids \ {last.uid} :
            Exist(b) /\ CacheExist(modifiedSessions, b)

\* Every Requirements a caller can fill in: each field unset or set.
FilledRequirements ==
    {Ref([DefaultKey |-> k, Timeout |-> t, UidExist |-> e]) :
        k \in {"", "sid"}, t \in {0, 2},
        e \in {NilPredicate, Predicate({}), Predicate({1})}}

\* C15: a store built from nil or from a Requirements with every field zero
\* holds Requirements with DefaultKey "_ssid", a Timeout that is not zero and
\* a UidExist that is false of every uid; and whatever the caller hands in,
\* every field that was set is held as given and every field that was unset
\* holds the fallback. The code breaks it: the fallback Timeout is zero.
C15_RequirementsNormalised ==
    /\ (reqGiven.nil \/ reqGiven.val = zeroRequirements) =>
            /\ Requirements.DefaultKey = "_ssid"
            /\ Requirements.Timeout # 0
            /\ ~Requirements.UidExist.nil
            /\ \A u \in Uids : u \notin Requirements.UidExist.yes
    /\ \A r \in FilledRequirements \cup {reqGiven} :
            LET got == NewStore(r) IN
            /\ got.DefaultKey # "" /\ got.Timeout # 0 /\ ~got.UidExist.nil
            /\ ~r.nil =>
                /\ got.DefaultKey =
                        IF r.val.DefaultKey = "" THEN "_ssid"
                        ELSE r.val.DefaultKey
                /\ r.val.Timeout # 0 => got.Timeout = r.val.Timeout
                /\ got.UidExist.yes =
                        IF r.val.UidExist.nil THEN {} ELSE r.val.UidExist.yes
            /\ r = reqGiven => Requirements = got

\* C16: SetHttpCookie works on the caller's template, or on an empty cookie
\* when there is none; it overwrites the cookie's Name with the Key that
\* s.Key() reads from the session and its Value with the Uid that s.Uid()
\* reads, and nothing else of the cookie: the Domain the template had is the
\* Domain of the cookie until http.SetCookie is given it. No step of the call
\* changes a session or anything in the store.
C16_SetHttpCookieFrame ==
    [][\A p \in Procs :
        /\ \A h \in Allocated, cookie \in CookieTemplates :
                SetHttpCookieCall(p, h, cookie) =>
                    loc'[p].cookie =
                        IF cookie.nil THEN EmptyHttpCookie ELSE cookie
        /\ SetHttpCookieKey(p) =>
                loc'[p].cookie =
                    [loc[p].cookie EXCEPT !.Name = Key(loc[p].h)]
        /\ SetHttpCookieUid(p) =>
                loc'[p].cookie =
                    [loc[p].cookie EXCEPT !.Value = Uid(loc[p].h)]
        /\ SetHttpCookieSend(p) =>
                /\ w' = loc[p].cookie
                /\ ~w'.nil
        /\ (pc[p] \in Binding /\ pc'[p] \in Binding) =>
                loc'[p].cookie.Domain = loc[p].cookie.Domain
        /\ (pc[p] \in Binding /\ pc'[p] # pc[p]) =>
                UNCHANGED <<heap, storeVars>>]_vars

\* A session whose key was set to "k" was bound to the template of domain
\* example.com.
C16_Witness ==
    /\ last.op = "SetHttpCookie"
    /\ Key(last.h) = "k"
    /\ w.Name = "k" /\ w.Value = Uid(last.h) /\ w.Domain = "example.com"

\* C17: as long as no entry of _sessions has run out, every uid that is a key
\* of _modifiedSessions is a key of _sessions.
C17_ModifiedSubsetOfSessions ==
    CacheKeys(modifiedSessions) \subseteq CacheKeys(sessions)

\* C18: right after SetValue, SetKey or SetUid returns on a session,
\* _modifiedSessions holds that session under its current uid.
C18_MutatorsReinsert ==
    last.op \in {"SetValue", "SetKey", "SetUid"} =>
        modifiedSessions[Uid(last.h)] = last.h

\* C19: once generateUid has returned a uid to a caller of New, and until
\* that caller has put its session into _sessions, the uid is in
\* _tmpUidStore.
C19_AllocatorReserves ==
    \A p \in Procs : pc[p] = "generated" => loc[p].uid \in tmpUidStore

\* C20: the check of generateUid returns a candidate exactly if, in the
\* state in which it is checked, the candidate is not a key of _sessions,
\* not in _tmpUidStore and not a uid of which Requirements.UidExist holds,
\* and has the candidate drawn again otherwise; New builds its session with
\* the uid that passed and inserts it under that uid.
C20_ReturnedUidPassedChecks ==
    [][\A p \in Procs :
        /\ GenerateCheck(p) =>
                /\ pc'[p] = "generated" <=>
                        /\ ~CacheExist(sessions, loc[p].uid)
                        /\ loc[p].uid \notin tmpUidStore
                        /\ loc[p].uid \notin Requirements.UidExist.yes
                /\ pc'[p] = "generated" => loc'[p].uid = loc[p].uid
                /\ pc'[p] # "generated" => pc'[p] = "drawing"
        /\ NewAddSessions(p) =>
                /\ heap'[loc'[p].h].Uid = loc[p].uid
                /\ sessions'[loc[p].uid] = loc'[p].h
        /\ pc[p] \in {"generated", "added"} => loc'[p].uid = loc[p].uid]_vars

\* New has returned a session with a uid that passed the check, in a store
\* whose UidExist holds of some uid, while another caller has drawn a
\* candidate that the check is going to reject.
C20_Witness ==
    \E p, q \in Procs :
        /\ pc[p] = "done"
        /\ Requirements.UidExist.yes # {}
        /\ loc[p].uid \notin Requirements.UidExist.yes
        /\ pc[q] = "drawn"
        /\ doesUidExist(loc[q].uid)

\* C11: with callers running the setters of one session concurrently and a
\* clock that never goes back, no step lowers the session's LastModified.
C11_LastModifiedMonotone ==
    [][\A h \in Allocated :
        heap'[h].LastModified >= heap[h].LastModified]_vars

\* Two callers are in setters of the same session: one has stored the latest
\* time under the lock, after the other stored an earlier one and released
\* the lock.
C11_Witness ==
    \E p, q \in Procs :
        /\ pc[p] = "stored" /\ pc[q] = "unlocked"
        /\ loc[p].h = loc[q].h
        /\ now[p] = MaxClock
        /\ LastModified(loc[p].h) = MaxClock

\* Every candidate the random source can produce is reported as existing.
Exhausted == \A uid \in Uids : doesUidExist(uid)
InGenerateUid(p) == pc[p] \in {"drawing", "drawn"}

\* C21: a call of New that is in the loop of generateUid while every
\* candidate is reported as existing stays in the loop, and its steps change
\* no session and neither collection; and a call that is in the loop while
\* some candidate is not reported as existing returns, unless the candidates
\* run out first.
C21_NewBlocksOrReturns ==
    /\ [][\A p \in Procs :
            (Exhausted /\ InGenerateUid(p)) =>
                /\ InGenerateUid(p)'
                /\ loc'[p].h = Nil
                /\ (pc'[p] # pc[p] \/ loc'[p] # loc[p]) =>
                        UNCHANGED <<heap, sessions, modifiedSessions>>]_vars
    /\ \A p \in Procs :
            (InGenerateUid(p) /\ ~Exhausted) ~> (pc[p] = "done" \/ Exhausted)

\* One call of New has returned, and another one has drawn a candidate while
\* every candidate is reported as existing.
C21_Witness ==
    \E p, q \in Procs :
        /\ pc[p] = "done"
        /\ pc[q] = "drawn"
        /\ Exhausted

\* No call of New or Remove is under way.
Quiescent == \A p \in Procs : pc[p] \in {"idle", "done"}

\* C22: concurrent calls of New and Remove leave the store as some order of
\* the whole calls would: New puts its uid into both collections and Remove
\* takes its uid out of both, so once every call has returned the two
\* collections have the same keys.
C22_MembershipSerializes ==
    Quiescent => CacheKeys(sessions) = CacheKeys(modifiedSessions)

\* C23: SetUid(u2) on a session changes that session's Uid and LastModified
\* and no other field of any session, and does not re-key _sessions: Get and
\* Exist answer for every uid (the one the session was created under and u2
\* among them) as they did before the call.
C23_SetUidFrame ==
    [][\A h \in Allocated, u2 \in Uids :
        SetUid(h, u2) =>
            /\ heap'[h].Uid = u2
            /\ heap'[h].Key = heap[h].Key
            /\ heap'[h].Value = heap[h].Value
            /\ \A g \in Allocated \ {h} : heap'[g] = heap[g]
            /\ sessions' = sessions
            /\ \A u \in Uids : Get(u)' = Get(u) /\ Exist(u)' = Exist(u)]_vars

\* SetUid(u2) has returned on a session that Get still returns for the uid
\* u1 it was created under, and u2 is no key of _sessions.
C23_Witness ==
    /\ last.op = "SetUid"
    /\ Uid(last.h) = last.uid
    /\ ~Exist(last.uid)
    /\ \E u1 \in Uids \ {last.uid} : Get(u1) = last.h

\* C24: building a store leaves the Requirements the caller handed in as
\* they were, unset fields unset.
C24_NormalisationPure == CallerRequirements(reqGiven) = reqGiven

\* C25: under fair scheduling every call of an accessor or a setter of a
\* session returns, whatever the other callers do on the same or on other
\* sessions.
C25_SessionCallsReturn ==
    \A p \in Procs : (pc[p] # "idle") ~> (pc[p] = "idle")

\* One caller waits in Lock for a session that another caller is reading,
\* with two sessions in the store.
C25_Witness ==
    \E p, q \in Procs :
        /\ pc[p] = "waiting" /\ pc[q] = "reading"
        /\ loc[p].h = loc[q].h
        /\ loc[p].op = "UpdateLastModified"
        /\ Len(heap) = 2

====
